---- MODULE Spec2Model ----
(***************************************************************************)
(* PUI - Process Port Manager (src/main.py).                               *)
(*                                                                         *)
(* Text is modelled as a sequence of one-character strings, so that        *)
(* str.strip, str.split, int() and str() are computed, not assumed.        *)
(***************************************************************************)
EXTENDS Integers, Sequences, FiniteSets, TLC

\* ------------------------------------------------------------------ bounds
\* number of data lines in an arbitrary backend output (parser specification)
MaxLines == 3

\* ------------------------------------------------------- program constants
\* `if len(parts) < 9: continue`
MinFields == 9

\* ---------------------------------------------------------- text helpers
Digits == <<"0", "1", "2", "3", "4", "5", "6", "7", "8", "9">>

DigitChars == {Digits[i] : i \in 1..10}

\* the characters str.split() and str.strip() treat as whitespace
Whitespace == {" ", "\t", "\n", "\r"}

DigitVal(c) == (CHOOSE i \in 1..10 : Digits[i] = c) - 1

RECURSIVE NatToStr(_)
\* str(n) for n >= 0
NatToStr(n) ==
    IF n < 10 THEN <<Digits[n + 1]>>
    ELSE NatToStr(n \div 10) \o <<Digits[(n % 10) + 1]>>

\* str(n) of a Python int
IntToStr(n) == IF n < 0 THEN <<"-">> \o NatToStr(0 - n) ELSE NatToStr(n)

RECURSIVE DigitsOk(_, _)
\* the digit part of an int() literal: digits, single underscores between them
DigitsOk(s, i) ==
    IF i > Len(s) THEN TRUE
    ELSE IF s[i] \in DigitChars THEN DigitsOk(s, i + 1)
    ELSE IF s[i] = "_"
         THEN /\ i > 1
              /\ i < Len(s)
              /\ s[i - 1] \in DigitChars
              /\ s[i + 1] \in DigitChars
              /\ DigitsOk(s, i + 1)
    ELSE FALSE

RECURSIVE DigitsVal(_, _, _)
DigitsVal(s, i, acc) ==
    IF i > Len(s) THEN acc
    ELSE IF s[i] = "_" THEN DigitsVal(s, i + 1, acc)
    ELSE DigitsVal(s, i + 1, acc * 10 + DigitVal(s[i]))

RECURSIVE LStrip(_)
LStrip(s) == IF s # <<>> /\ Head(s) \in Whitespace THEN LStrip(Tail(s)) ELSE s

RECURSIVE RStrip(_)
RStrip(s) ==
    IF s # <<>> /\ s[Len(s)] \in Whitespace
    THEN RStrip(SubSeq(s, 1, Len(s) - 1))
    ELSE s

\* str.strip()
Strip(s) == RStrip(LStrip(s))

\* int(s): ok = FALSE stands for ValueError
PyInt(s) ==
    LET t == Strip(s)
        neg == t # <<>> /\ Head(t) = "-"
        body == IF t # <<>> /\ Head(t) \in {"+", "-"} THEN Tail(t) ELSE t
    IN  IF body # <<>> /\ DigitsOk(body, 1)
        THEN [ok |-> TRUE,
              val |-> IF neg THEN 0 - DigitsVal(body, 1, 0)
                      ELSE DigitsVal(body, 1, 0)]
        ELSE [ok |-> FALSE, val |-> 0]

RECURSIVE SplitOn(_, _)
\* str.split(sep) for a one-character separator: empty pieces are kept
SplitOn(s, sep) ==
    IF \A i \in 1..Len(s) : s[i] # sep THEN <<s>>
    ELSE LET k == CHOOSE i \in 1..Len(s) :
                     s[i] = sep /\ \A j \in 1..(i - 1) : s[j] # sep
         IN  <<SubSeq(s, 1, k - 1)>> \o SplitOn(SubSeq(s, k + 1, Len(s)), sep)

RECURSIVE SplitWhitespace(_)
\* str.split(): runs of whitespace separate, no empty pieces
SplitWhitespace(s) ==
    LET t == LStrip(s)
    IN  IF t = <<>> THEN <<>>
        ELSE IF \A i \in 1..Len(t) : t[i] \notin Whitespace THEN <<t>>
        ELSE LET k == CHOOSE i \in 1..Len(t) :
                         t[i] \in Whitespace
                         /\ \A j \in 1..(i - 1) : t[j] \notin Whitespace
             IN  <<SubSeq(t, 1, k - 1)>>
                     \o SplitWhitespace(SubSeq(t, k + 1, Len(t)))

RECURSIVE JoinWith(_, _)
\* sep.join(parts)
JoinWith(parts, sep) ==
    IF parts = <<>> THEN <<>>
    ELSE IF Len(parts) = 1 THEN parts[1]
    ELSE parts[1] \o sep \o JoinWith(Tail(parts), sep)

\* ------------------------------------------------- get_port_processes
ParseLineNoFieldCheck(line) ==
    LET parts == SplitWhitespace(line)
        pid == PyInt(parts[2])
        name_col == parts[Len(parts) - 1]
        pieces == SplitOn(name_col, ":")
        port == PyInt(pieces[Len(pieces)])
        skip == [ok |-> FALSE, port |-> 0, pid |-> 0, name |-> <<>>]
    IN  IF line = <<>> THEN skip
        ELSE IF Len(parts) < 3 THEN skip
        ELSE IF ~pid.ok THEN skip
        ELSE IF \A i \in 1..Len(name_col) : name_col[i] # ":" THEN skip
        ELSE IF ~port.ok THEN skip
        ELSE [ok |-> TRUE, port |-> port.val, pid |-> pid.val,
              name |-> parts[1]]

ParseLineNameFromUser(line) ==
    LET parts == SplitWhitespace(line)
        pid == PyInt(parts[2])
        name_col == parts[Len(parts) - 1]
        pieces == SplitOn(name_col, ":")
        port == PyInt(pieces[Len(pieces)])
        skip == [ok |-> FALSE, port |-> 0, pid |-> 0, name |-> <<>>]
    IN  IF line = <<>> THEN skip
        ELSE IF Len(parts) < MinFields THEN skip
        ELSE IF ~pid.ok THEN skip
        ELSE IF \A i \in 1..Len(name_col) : name_col[i] # ":" THEN skip
        ELSE IF ~port.ok THEN skip
        ELSE [ok |-> TRUE, port |-> port.val, pid |-> pid.val,
              name |-> parts[3]]

\* `if not line` .. `port = int(port_str)`: one lsof line to a candidate
\* entry; ok = FALSE stands for `continue`
ParseLine(line) ==
    LET parts == SplitWhitespace(line)
        pid == PyInt(parts[2])
        name_col == parts[Len(parts) - 1]
        pieces == SplitOn(name_col, ":")
        port == PyInt(pieces[Len(pieces)])
        skip == [ok |-> FALSE, port |-> 0, pid |-> 0, name |-> <<>>]
    IN  IF line = <<>> THEN skip
        ELSE IF Len(parts) < MinFields THEN skip
        ELSE IF ~pid.ok THEN skip
        ELSE IF \A i \in 1..Len(name_col) : name_col[i] # ":" THEN skip
        ELSE IF ~port.ok THEN skip
        ELSE [ok |-> TRUE, port |-> port.val, pid |-> pid.val,
              name |-> parts[1]]

RECURSIVE ParseLoopLastWins(_, _, _)
ParseLoopLastWins(lines, processes, seen_ports) ==
    IF lines = <<>> THEN processes
    ELSE LET e == ParseLine(Head(lines))
             kept == SelectSeq(processes, LAMBDA p : p[1] # e.port)
         IN  IF ~e.ok
             THEN ParseLoopLastWins(Tail(lines), processes, seen_ports)
             ELSE ParseLoopLastWins(Tail(lines),
                      Append(kept, <<e.port, e.pid, e.name, "LISTEN">>),
                      seen_ports \cup {e.port})

RECURSIVE ParseLoop(_, _, _)
\* `for line in lines:` with the seen_ports de-duplication
ParseLoop(lines, processes, seen_ports) ==
    IF lines = <<>> THEN processes
    ELSE LET e == ParseLine(Head(lines))
         IN  IF ~e.ok \/ e.port \in seen_ports
             THEN ParseLoop(Tail(lines), processes, seen_ports)
             ELSE ParseLoop(Tail(lines),
                      Append(processes, <<e.port, e.pid, e.name, "LISTEN">>),
                      seen_ports \cup {e.port})

RECURSIVE InsertByPort(_, _)
InsertByPort(sorted, e) ==
    IF sorted = <<>> THEN <<e>>
    ELSE IF e[1] < Head(sorted)[1] THEN <<e>> \o sorted
    ELSE <<Head(sorted)>> \o InsertByPort(Tail(sorted), e)

RECURSIVE SortFrom(_, _)
SortFrom(processes, acc) ==
    IF processes = <<>> THEN acc
    ELSE SortFrom(Tail(processes), InsertByPort(acc, Head(processes)))

SortedByPortUnsorted(processes) == processes

\* sorted(processes, key=lambda x: x[0]) (stable)
SortedByPort(processes) == SortFrom(processes, <<>>)

\* the exceptions subprocess.run can raise that the except clause names
CaughtErrors == {"FileNotFoundError", "SubprocessError"}

\* the exceptions subprocess.run can raise that the except clause does not
\* name: the tool exists but cannot be executed (PermissionError, an OSError)
\* and text=True meeting bytes that do not decode (UnicodeDecodeError)
UncaughtErrors == {"PermissionError", "UnicodeDecodeError"}

DataLinesSkipTwo(stdout) == Tail(Tail(SplitOn(Strip(stdout), "\n")))

\* result.stdout.strip().split("\n")[1:]
DataLines(stdout) == Tail(SplitOn(Strip(stdout), "\n"))

Returned(val) == [raised |-> FALSE, exc |-> "", val |-> val]

Raised(exc) == [raised |-> TRUE, exc |-> exc, val |-> <<>>]

\* the whole function, for one outcome of subprocess.run
get_port_processes(run) ==
    IF run.kind \in CaughtErrors THEN Returned(<<>>)
    ELSE IF run.kind \in UncaughtErrors THEN Raised(run.kind)
    ELSE IF run.stdout = <<>> THEN Returned(<<>>)
    ELSE Returned(SortedByPort(ParseLoop(DataLines(run.stdout), <<>>, {})))

\* ------------------------------------------------- backend output (lsof)
\* lsof's header line: COMMAND PID USER FD TYPE DEVICE SIZE/OFF NODE NAME
Header ==
    JoinWith(<< <<"C">>, <<"P", "I", "D">>, <<"U">>, <<"F", "D">>, <<"T">>,
                <<"D">>, <<"S">>, <<"N">>, <<"N", "A", "M", "E">> >>, <<" ">>)

ListenTag == <<"(", "L", "I", "S", "T", "E", "N", ")">>

\* the columns after PID: USER FD TYPE DEVICE SIZE/OFF NODE NAME (LISTEN)
RecordTail(addr) ==
    JoinWith(<< <<"u">>, <<"3", "u">>, <<"I", "P">>, <<"d">>,
                <<"0", "t", "0">>, <<"T", "C", "P">>, addr, ListenTag >>,
             <<" ">>)

\* one lsof record: COMMAND PID and the remaining columns
Record(command, pid, addr) ==
    JoinWith(<<command, pid, RecordTail(addr)>>, <<" ">>)

\* the text lsof writes: header, one line per record, newline-terminated
OutputText(lines) == JoinWith(<<Header>> \o lines, <<"\n">>) \o <<"\n">>

\* Labelled lines for arbitrary backend output.  kind says what the line is;
\* port, pid and name are what a reader of the line takes it to say (for a
\* malformed line, port is the port it would have named).
SampleLines ==
    { [text |-> Record(<<"a">>, <<"7">>, <<"*", ":", "8", "0">>),
       kind |-> "ok", port |-> 80, pid |-> 7, name |-> <<"a">>],
      [text |-> Record(<<"b">>, <<"1", "2">>,
                       <<"1", ".", "2", ":", "8", "0">>),
       kind |-> "ok", port |-> 80, pid |-> 12, name |-> <<"b">>],
      [text |-> Record(<<"b">>, <<"1", "2">>,
                       <<"[", ":", ":", "1", "]", ":", "2", "2">>),
       kind |-> "ok", port |-> 22, pid |-> 12, name |-> <<"b">>],
      [text |-> <<"c", " ", " ", "9", "\t">> \o RecordTail(<<"*", ":", "9">>),
       kind |-> "ok", port |-> 9, pid |-> 9, name |-> <<"c">>],
      [text |-> Record(<<"d">>, <<"8">>, <<"*", ":", "0", "2", "2">>),
       kind |-> "ok", port |-> 22, pid |-> 8, name |-> <<"d">>],
      [text |-> Record(<<"a">>, <<"7">>, <<"*", ":", "0">>),
       kind |-> "ok", port |-> 0, pid |-> 7, name |-> <<"a">>],
      [text |-> <<>>,
       kind |-> "empty", port |-> 81, pid |-> 0, name |-> <<>>],
      [text |-> JoinWith(<< <<"a">>, <<"7">>, <<"u">>, <<"3", "u">>,
                            <<"I", "P">>, <<"d">>, <<"*", ":", "8", "2">>,
                            ListenTag >>, <<" ">>),
       kind |-> "short", port |-> 82, pid |-> 7, name |-> <<"a">>],
      [text |-> Record(<<"a">>, <<"x", "7">>, <<"*", ":", "8", "3">>),
       kind |-> "badpid", port |-> 83, pid |-> 0, name |-> <<"a">>],
      [text |-> Record(<<"a">>, <<"7">>, <<"8", "4">>),
       kind |-> "nocolon", port |-> 84, pid |-> 7, name |-> <<"a">>],
      [text |-> Record(<<"a">>, <<"7">>, <<"*", ":", "8", "5", "h">>),
       kind |-> "badport", port |-> 85, pid |-> 7, name |-> <<"a">>],
      [text |-> Record(<<"a">>, <<"7">>, <<"*", ":", "-", "1">>),
       kind |-> "range", port |-> 0 - 1, pid |-> 7, name |-> <<"a">>],
      [text |-> Record(<<"b">>, <<"1", "2">>,
                       <<"*", ":", "7", "0", "0", "0", "0">>),
       kind |-> "range", port |-> 70000, pid |-> 12, name |-> <<"b">>] }

\* every backend output of at most MaxLines sample lines
SampleInputs == UNION {[1..n -> SampleLines] : n \in 0..MaxLines}

RunOf(lines) ==
    [kind |-> "ok",
     stdout |-> OutputText([i \in 1..Len(lines) |-> lines[i].text])]

\* the labels of a sequence of labelled lines, without their text
Labels(lines) ==
    [i \in 1..Len(lines) |->
        [kind |-> lines[i].kind, port |-> lines[i].port, pid |-> lines[i].pid,
         name |-> lines[i].name]]

\* subprocess.run completing with nothing on stdout (e.g. a non-zero exit)
NoOutput == [kind |-> "ok", stdout |-> <<>>]

FailedRun(exc) == [kind |-> exc, stdout |-> <<>>]

NotCalled == [raised |-> FALSE, exc |-> "not called", val |-> <<>>]

\* ------------------------------------------------ operating system model
\* the processes of the machine that may hold listening sockets
Pids == {3, 7, 12}

\* the command name lsof reports for a process
ProcName(pid) ==
    CASE pid = 3 -> <<"s">>
      [] pid = 7 -> <<"w", "e", "b">>
      [] OTHER -> <<"d", "b">>

\* processes of another user: signalling them is refused
Protected == {3}

\* the listening sockets, in the order the OS reports them: process 7 is
\* bound dual-stack to port 80, process 12 shares port 80 on one address
SocketTable ==
    << [pid |-> 12, addr |-> <<"1", ".", "2">>, port |-> 443],
       [pid |-> 7, addr |-> <<"*">>, port |-> 80],
       [pid |-> 7, addr |-> <<"[", ":", ":", "]">>, port |-> 80],
       [pid |-> 12, addr |-> <<"1", ".", "2">>, port |-> 80],
       [pid |-> 3, addr |-> <<"*">>, port |-> 631] >>

\* the records `lsof -iTCP -sTCP:LISTEN -n -P` prints while `live` run
LsofRecords(live) ==
    LET socks == SelectSeq(SocketTable, LAMBDA k : k.pid \in live)
    IN  [i \in 1..Len(socks) |->
            [text |-> Record(ProcName(socks[i].pid), IntToStr(socks[i].pid),
                             socks[i].addr \o <<":">>
                                 \o IntToStr(socks[i].port)),
             kind |-> "ok",
             port |-> socks[i].port,
             pid |-> socks[i].pid,
             name |-> ProcName(socks[i].pid)]]

\* what psutil.Process(pid).send_signal(SIGTERM) does; fault stands for any
\* other failure of the OS call
SignalResult(pid, live, fault) ==
    IF fault THEN "OSError"
    ELSE IF pid \notin live THEN "NoSuchProcess"
    ELSE IF pid \in Protected THEN "AccessDenied"
    ELSE "delivered"

\* ------------------------------------------------------------------ state
Status(msg, name, pid, n) == [msg |-> msg, name |-> name, pid |-> pid, n |-> n]

NoModal == [pid |-> 0, process_name |-> <<>>, port |-> 0, open |-> FALSE]

Idle == [op |-> "none", outcome |-> "none", refreshed |-> FALSE, sent |-> {}]

VARIABLES
    input,          \* the labelled lines the backend output was built from
    run,            \* the outcome of the last subprocess.run
    ret,            \* what the last get_port_processes did
    alive,          \* OS: the processes that exist
    pending,        \* OS: processes with a SIGTERM delivered and not yet exited
    seen,           \* OS: the processes that existed when the last listing ran
    app,            \* "new", "running", "exited" (quit) or "crashed"
    rows,           \* DataTable rows, as the strings add_row was given
    cursor,         \* DataTable cursor row (0-based)
    status_message, \* PortProcessApp.status_message
    notifications,  \* the notifications posted with self.notify
    modal,          \* the ConfirmKillScreen on top of the app, if open
    confirmed,      \* history: the result push_screen_wait gave in the last
                    \* step (FALSE when it gave none)
    last            \* history: the branch the last step took

osvars == <<alive, pending, seen>>

appvars ==
    <<app, rows, cursor, status_message, notifications, modal, confirmed, last>>

vars == <<input, run, ret, alive, pending, seen, app, rows, cursor,
          status_message, notifications, modal, confirmed, last>>

AppInit ==
    /\ app = "new"
    /\ rows = <<>>
    /\ cursor = 0
    /\ status_message = Status("", <<>>, 0, 0)
    /\ notifications = {}
    /\ modal = NoModal
    /\ confirmed = FALSE
    /\ last = Idle

\* --------------------------------------- get_port_processes on any output
ParserInit ==
    /\ ret = NotCalled
    /\ \/ \E lines \in SampleInputs :
              /\ input = Labels(lines)
              /\ run = RunOf(lines)
       \/ /\ input = <<>>
          /\ run \in {NoOutput} \cup {FailedRun(e) :
                                      e \in CaughtErrors \cup UncaughtErrors}
    /\ alive = {}
    /\ pending = {}
    /\ seen = {}
    /\ AppInit

Call ==
    /\ ret = NotCalled
    /\ ret' = get_port_processes(run)
    /\ UNCHANGED <<input, run, osvars, appvars>>

ParserNext == Call

ParserSpec == ParserInit /\ [][ParserNext]_vars

\* ------------------------------------------------------- PortProcessApp
NoneFoundStatus == Status("No processes listening on ports found", <<>>, 0, 0)

FoundStatus(n) == Status("Found n process(es) listening on ports", <<>>, 0, n)

NoKillStatus == Status("No processes to kill", <<>>, 0, 0)

SentStatus(name, pid) == Status("Sent SIGTERM to name (PID: pid)", name, pid, 0)

GoneStatus(pid) == Status("Process pid no longer exists", <<>>, pid, 0)

\* self.notify(..., severity="error", timeout=5)
ErrorNotification(msg, name, pid, detail) ==
    [msg |-> msg, name |-> name, pid |-> pid, detail |-> detail,
     severity |-> "error", timeout |-> 5]

\* one call of get_port_processes: what subprocess.run met and what the
\* function did with it
CallOn(lines, r) ==
    [input |-> Labels(lines), run |-> r, ret |-> get_port_processes(r)]

\* lsof's outcome while `live` run: its records, or nothing when none listens
LsofRun(live) ==
    IF LsofRecords(live) = <<>> THEN NoOutput ELSE RunOf(LsofRecords(live))

\* the calls that meet nothing on stdout, or subprocess.run raising
FailedCalls ==
    {CallOn(<<>>, r) :
        r \in {NoOutput} \cup {FailedRun(e) :
                               e \in CaughtErrors \cup UncaughtErrors}}

\* what one listing can meet while `live` run
Snapshots(live) ==
    {CallOn(LsofRecords(live), LsofRun(live))} \cup FailedCalls

\* the processes that may exit while one listing runs (at most one)
Races(live) == {{}} \cup {{p} : p \in live}

\* table.add_row(str(port), str(pid), name, status) for every entry
RowsOf(processes) ==
    [i \in 1..Len(processes) |->
        <<IntToStr(processes[i][1]), IntToStr(processes[i][2]),
          processes[i][3], processes[i][4]>>]

\* _refresh_table, entered with status text st, the processes in live
\* running and a SIGTERM just delivered to those in sig: the listing meets
\* snap, and the processes in gone exit while it runs.  An exception of
\* get_port_processes leaves the table cleared and the status as it was.
RefreshTable(snap, live, gone, st, sig) ==
    LET r == snap.ret
    IN  /\ input' = snap.input
        /\ run' = snap.run
        /\ ret' = r
        /\ alive' = live \ gone
        /\ pending' = ((pending \cup sig) \cap live) \ gone
        /\ seen' = live
        /\ cursor' = 0
        /\ rows' = IF r.raised THEN <<>> ELSE RowsOf(r.val)
        /\ status_message' =
               IF r.raised THEN st
               ELSE IF r.val = <<>> THEN NoneFoundStatus
               ELSE FoundStatus(Len(r.val))

Bindable == app = "running" /\ ~modal.open

Handled(op) == [Idle EXCEPT !.op = op]

\* on_mount
OnMount ==
    /\ app = "new"
    /\ \E snap \in Snapshots(alive), gone \in Races(alive) :
           /\ RefreshTable(snap, alive, gone, status_message, {})
           /\ app' = IF snap.ret.raised THEN "crashed" ELSE "running"
    /\ last' = [Handled("mount") EXCEPT !.refreshed = TRUE]
    /\ confirmed' = FALSE
    /\ UNCHANGED <<notifications, modal>>

\* action_refresh
ActionRefresh ==
    /\ Bindable
    /\ \E snap \in Snapshots(alive), gone \in Races(alive) :
           /\ RefreshTable(snap, alive, gone, status_message, {})
           /\ app' = IF snap.ret.raised THEN "crashed" ELSE "running"
    /\ last' = [Handled("refresh") EXCEPT !.refreshed = TRUE]
    /\ confirmed' = FALSE
    /\ UNCHANGED <<notifications, modal>>

\* action_cursor_down
ActionCursorDown ==
    /\ Bindable
    /\ cursor + 1 < Len(rows)
    /\ cursor' = cursor + 1
    /\ last' = Handled("cursor_down")
    /\ confirmed' = FALSE
    /\ UNCHANGED <<input, run, ret, osvars, app, rows, status_message,
                   notifications, modal>>

\* action_cursor_up
ActionCursorUp ==
    /\ Bindable
    /\ cursor > 0
    /\ cursor' = cursor - 1
    /\ last' = Handled("cursor_up")
    /\ confirmed' = FALSE
    /\ UNCHANGED <<input, run, ret, osvars, app, rows, status_message,
                   notifications, modal>>

\* action_kill_process up to `await self.push_screen_wait(...)`
ActionKillProcess ==
    /\ Bindable
    /\ IF Len(rows) = 0
       THEN /\ status_message' = NoKillStatus
            /\ modal' = modal
            /\ last' = Handled("kill_empty")
       ELSE LET row_data == rows[cursor + 1]
            IN  /\ modal' = [pid |-> PyInt(row_data[2]).val,
                             process_name |-> row_data[3],
                             port |-> PyInt(row_data[1]).val,
                             open |-> TRUE]
                /\ status_message' = status_message
                /\ last' = Handled("kill_ask")
    /\ confirmed' = FALSE
    /\ UNCHANGED <<input, run, ret, osvars, app, rows, cursor, notifications>>

\* the specification's name for the OS's answer to the signalling calls
OutcomeOf(answer) ==
    CASE answer = "delivered" -> "Succeeded"
      [] answer = "NoSuchProcess" -> "AlreadyGone"
      [] answer = "AccessDenied" -> "Denied"
      [] OTHER -> "Unexpected"

Killed(answer, refreshed, sent) ==
    [Handled("kill") EXCEPT !.outcome = OutcomeOf(answer),
                            !.refreshed = refreshed, !.sent = sent]

\* the try body after send_signal returned: status, refresh; an exception of
\* the refresh lands in `except Exception`
OnDelivered(pid, process_name, answer, live, snap, gone) ==
    /\ RefreshTable(snap, live, gone, SentStatus(process_name, pid), {pid})
    /\ notifications' =
           IF snap.ret.raised
           THEN notifications \cup
                    {ErrorNotification("Error killing process: e", <<>>, 0,
                                       snap.ret.exc)}
           ELSE notifications
    /\ app' = app
    /\ last' = Killed(answer, TRUE, {pid})

\* `except psutil.NoSuchProcess`: status, refresh; an exception of the
\* refresh leaves the handler and the worker, and the app exits on it
OnNoSuchProcess(pid, process_name, answer, live, snap, gone) ==
    /\ RefreshTable(snap, live, gone, GoneStatus(pid), {})
    /\ notifications' = notifications
    /\ app' = IF snap.ret.raised THEN "crashed" ELSE app
    /\ last' = Killed(answer, TRUE, {})

\* `except psutil.AccessDenied`
OnAccessDenied(pid, process_name, answer) ==
    /\ notifications' =
           notifications \cup
               {ErrorNotification("Permission denied: cannot kill",
                                  process_name, pid, "")}
    /\ last' = Killed(answer, FALSE, {})
    /\ UNCHANGED <<input, run, ret, osvars, app, rows, cursor, status_message>>

\* `except Exception as e`
OnException(answer) ==
    /\ notifications' =
           notifications \cup
               {ErrorNotification("Error killing process: e", <<>>, 0, answer)}
    /\ last' = Killed(answer, FALSE, {})
    /\ UNCHANGED <<input, run, ret, osvars, app, rows, cursor, status_message>>

KillProcessDeniedAsGone(pid, process_name, fault, live, snap, gone) ==
    LET answer == SignalResult(pid, alive, fault)
    IN  CASE answer = "delivered" ->
                 OnDelivered(pid, process_name, answer, live, snap, gone)
          [] answer \in {"NoSuchProcess", "AccessDenied"} ->
                 OnNoSuchProcess(pid, process_name, answer, live, snap, gone)
          [] OTHER -> OnException(answer)

\* _kill_process(pid, process_name).  What the OS does during the call:
\* fault is a failure of the signalling calls, live the processes left when
\* lsof runs, snap what the listing meets, gone the processes that exit
\* while it runs
KillProcess(pid, process_name, fault, live, snap, gone) ==
    LET answer == SignalResult(pid, alive, fault)
    IN  CASE answer = "delivered" ->
                 OnDelivered(pid, process_name, answer, live, snap, gone)
          [] answer = "NoSuchProcess" ->
                 OnNoSuchProcess(pid, process_name, answer, live, snap, gone)
          [] answer = "AccessDenied" ->
                 OnAccessDenied(pid, process_name, answer)
          [] OTHER -> OnException(answer)

AfterConfirmIgnoresAnswer(answered) ==
    /\ app = "running"
    /\ modal.open
    /\ modal' = NoModal
    /\ confirmed' = answered
    /\ \E fault \in BOOLEAN, live \in {alive, alive \ {modal.pid}} :
           \E snap \in Snapshots(live), gone \in Races(live) :
               KillProcess(modal.pid, modal.process_name, fault, live, snap,
                           gone)

\* action_kill_process from the return of push_screen_wait:
\* `if confirmed: self._kill_process(pid, process_name)`
AfterConfirm(answered) ==
    /\ app = "running"
    /\ modal.open
    /\ modal' = NoModal
    /\ confirmed' = answered
    /\ IF answered
       THEN \E fault \in BOOLEAN, live \in {alive, alive \ {modal.pid}} :
                \E snap \in Snapshots(live), gone \in Races(live) :
                    KillProcess(modal.pid, modal.process_name, fault, live,
                                snap, gone)
       ELSE /\ last' = Handled("kill_declined")
            /\ UNCHANGED <<input, run, ret, osvars, app, rows, cursor,
                           status_message, notifications>>

\* ConfirmKillScreen.action_confirm: self.dismiss(True)
ActionConfirm == AfterConfirm(TRUE)

\* ConfirmKillScreen.action_cancel: self.dismiss(False)
ActionCancel == AfterConfirm(FALSE)

\* action_quit (App)
ActionQuit ==
    /\ Bindable
    /\ app' = "exited"
    /\ last' = Handled("quit")
    /\ confirmed' = FALSE
    /\ UNCHANGED <<input, run, ret, osvars, rows, cursor, status_message,
                   notifications, modal>>

\* OS: a process exits, by itself or on a pending SIGTERM
ProcExit ==
    /\ app \in {"new", "running"}
    /\ \E p \in alive :
           /\ alive' = alive \ {p}
           /\ pending' = pending \ {p}
    /\ last' = Handled("os")
    /\ confirmed' = FALSE
    /\ UNCHANGED <<input, run, ret, seen, app, rows, cursor,
                   status_message, notifications, modal>>

\* OS: a process starts and binds its sockets
ProcStart ==
    /\ app \in {"new", "running"}
    /\ \E p \in Pids \ alive : alive' = alive \cup {p}
    /\ last' = Handled("os")
    /\ confirmed' = FALSE
    /\ UNCHANGED <<input, run, ret, pending, seen, app, rows, cursor,
                   status_message, notifications, modal>>

Init ==
    /\ input = <<>>
    /\ run = NoOutput
    /\ ret = NotCalled
    /\ alive \in SUBSET Pids
    /\ pending = {}
    /\ seen = {}
    /\ AppInit

Next ==
    \/ OnMount
    \/ ActionRefresh
    \/ ActionCursorDown
    \/ ActionCursorUp
    \/ ActionKillProcess
    \/ ActionCancel
    \/ ActionConfirm
    \/ ActionQuit
    \/ ProcExit
    \/ ProcStart

Spec == Init /\ [][Next]_vars

\* ------------------------------------------------------ parser claims
Called == ret # NotCalled

\* the kinds of line the parsing steps accept; "range" lines are well formed
\* as text but name a port outside 0..65535
AcceptedKinds == {"ok", "range"}

MalformedKinds == {"empty", "short", "badpid", "nocolon", "badport"}

Ports(entries) == {entries[i][1] : i \in 1..Len(entries)}

\* the first accepted line of the input that names this port
FirstFor(port) ==
    input[CHOOSE i \in 1..Len(input) :
              /\ input[i].kind \in AcceptedKinds
              /\ input[i].port = port
              /\ \A j \in 1..(i - 1) :
                     ~(input[j].kind \in AcceptedKinds /\ input[j].port = port)]

\* C1: the returned ports are in strictly ascending order
C1_StrictlyAscending ==
    Called =>
        \A i \in 1..(Len(ret.val) - 1) : ret.val[i][1] < ret.val[i + 1][1]

\* a call whose input named two ports in descending order
C1_Witness ==
    /\ Called
    /\ Len(ret.val) >= 2
    /\ \E i, j \in 1..Len(input) :
           /\ i < j
           /\ input[i].kind = "ok"
           /\ input[j].kind = "ok"
           /\ input[i].port > input[j].port

\* C2: no two returned entries share a port, and the entry of a port carries
\* the pid and name of the first well-formed record for that port
C2_UniqueFirstWins ==
    Called =>
        /\ \A i, j \in 1..Len(ret.val) :
               ret.val[i][1] = ret.val[j][1] => i = j
        /\ \A i \in 1..Len(ret.val) :
               /\ \E k \in 1..Len(input) :
                      /\ input[k].kind \in AcceptedKinds
                      /\ input[k].port = ret.val[i][1]
               /\ ret.val[i][2] = FirstFor(ret.val[i][1]).pid
               /\ ret.val[i][3] = FirstFor(ret.val[i][1]).name

\* a call whose input had two records for one port, from different processes
C2_Witness ==
    /\ Called
    /\ \E i, j \in 1..Len(input) :
           /\ i < j
           /\ input[i].kind = "ok"
           /\ input[j].kind = "ok"
           /\ input[i].port = input[j].port
           /\ input[i].pid # input[j].pid
           /\ input[i].port \in Ports(ret.val)

\* C4: get_port_processes never raises, whatever the backend does
C4_NeverRaises == Called => ~ret.raised

\* C9: every returned entry has a port in 0..65535 and the state "LISTEN"
C9_PortInRange ==
    Called =>
        \A i \in 1..Len(ret.val) :
            /\ ret.val[i][1] \in 0..65535
            /\ ret.val[i][4] = "LISTEN"

\* C10: a malformed line yields no entry and raises nothing, and every
\* well-formed line of the same output still has its port in the result
C10_MalformedSkipped ==
    (Called /\ run.kind = "ok") =>
        /\ ~ret.raised
        /\ \A k \in 1..Len(input) :
               /\ input[k].kind \in MalformedKinds
                      => input[k].port \notin Ports(ret.val)
               /\ input[k].kind = "ok" => input[k].port \in Ports(ret.val)
        /\ \A i \in 1..Len(ret.val) :
               \E k \in 1..Len(input) :
                   /\ input[k].kind \in AcceptedKinds
                   /\ input[k].port = ret.val[i][1]

\* a call whose input had a malformed line before an address-qualified
\* record and a wildcard record
C10_Witness ==
    /\ Called
    /\ Len(ret.val) = 2
    /\ Len(input) >= 3
    /\ input[1].kind \in MalformedKinds
    /\ \E i, j \in 2..Len(input) :
           /\ input[i].kind = "ok"
           /\ input[j].kind = "ok"
           /\ input[i].port = 80 /\ input[i].pid = 12
           /\ input[j].port = 9

\* --------------------------------------------------------- app claims
\* the processes listening on a port among a set of processes
Owners(port, procs) ==
    {SocketTable[k].pid : k \in {i \in 1..Len(SocketTable) :
                                     /\ SocketTable[i].port = port
                                     /\ SocketTable[i].pid \in procs}}

ListenPorts == {SocketTable[k].port : k \in 1..Len(SocketTable)}

EntriesFor(port) == {i \in 1..Len(ret.val) : ret.val[i][1] = port}

\* the last step ran get_port_processes and it returned a value
Listed == last.refreshed /\ ~ret.raised

\* C3 as stated: whenever a call returns, a port with a single listening
\* process has exactly one entry, carrying that process's pid, and a port
\* nobody listens on has none
C3_RoundTripAlways ==
    Listed =>
        \A P \in ListenPorts :
            /\ Owners(P, seen) = {} => EntriesFor(P) = {}
            /\ Cardinality(Owners(P, seen)) = 1 =>
                   /\ Cardinality(EntriesFor(P)) = 1
                   /\ \A i \in EntriesFor(P) : ret.val[i][2] \in Owners(P, seen)

\* C3 amended: the same, for the calls in which lsof ran and wrote its listing
C3_RoundTripWhenListed ==
    Listed =>
        \A P \in ListenPorts :
            /\ Owners(P, seen) = {} => EntriesFor(P) = {}
            /\ (Cardinality(Owners(P, seen)) = 1 /\ run.stdout # <<>>) =>
                   /\ Cardinality(EntriesFor(P)) = 1
                   /\ \A i \in EntriesFor(P) : ret.val[i][2] \in Owners(P, seen)

\* the refresh of a kill that signalled process 12, run after that process
\* exited: port 443 has no entry, and port 80, left to process 7 alone (on
\* two addresses), has exactly one entry with pid 7
C3_Witness ==
    /\ Listed
    /\ run.stdout # <<>>
    /\ last.op = "kill"
    /\ last.sent = {12}
    /\ 12 \notin seen
    /\ EntriesFor(443) = {}
    /\ Owners(80, seen) = {7}
    /\ \E i \in 1..Len(ret.val) : ret.val[i][1] = 80 /\ ret.val[i][2] = 7

\* C5: a SIGTERM is sent only by the step that follows an affirmative
\* confirmation, and only to the selected process; a declined confirmation
\* and the kill key on an empty table send nothing and change neither the
\* processes, the rows nor the outcome of any termination
C5_ConfirmationGating ==
    [][/\ (last'.sent # {} \/ pending' \ pending # {}) =>
              /\ modal.open
              /\ last'.op = "kill"
              /\ confirmed' = TRUE
              /\ last'.sent = {modal.pid}
              /\ pending' \ pending \subseteq {modal.pid}
       /\ (modal.open /\ ~modal'.open /\ confirmed' = FALSE) =>
              /\ last'.op = "kill_declined"
              /\ alive' = alive
              /\ pending' = pending
              /\ rows' = rows
              /\ status_message' = status_message
              /\ notifications' = notifications
              /\ ret' = ret
              /\ last'.outcome = "none"
              /\ last'.sent = {}
       /\ last'.op = "kill_empty" =>
              /\ rows = <<>>
              /\ ~modal'.open
              /\ alive' = alive
              /\ pending' = pending
              /\ rows' = rows
              /\ notifications' = notifications
              /\ ret' = ret
              /\ last'.outcome = "none"
              /\ last'.sent = {}]_vars

\* a confirmation was declined while the selected process runs, after an
\* earlier confirmed kill of another process
C5_Witness ==
    /\ last.op = "kill_declined"
    /\ rows # <<>>
    /\ PyInt(rows[cursor + 1][2]).val \in alive \ pending
    /\ pending # {}

\* C6: a confirmed termination attempt re-resolves the inventory exactly
\* when it ended Succeeded or AlreadyGone; ended Denied or Unexpected it
\* leaves rows and status text as they were, posts an error notification
\* and leaves the application running
C6_RefreshIffDelivered ==
    [][last'.op = "kill" =>
           /\ last'.refreshed <=> last'.outcome \in {"Succeeded", "AlreadyGone"}
           /\ last'.outcome \in {"Succeeded", "AlreadyGone", "Denied",
                                 "Unexpected"}
           /\ last'.refreshed => (seen' \subseteq alive /\ cursor' = 0)
           /\ last'.outcome \in {"Denied", "Unexpected"} =>
                  /\ rows' = rows
                  /\ cursor' = cursor
                  /\ status_message' = status_message
                  /\ <<input, run, ret, seen>>' = <<input, run, ret, seen>>
                  /\ app' = "running"
                  /\ \E n \in notifications' :
                         /\ n.severity = "error"
                         /\ n.timeout = 5
                         /\ last'.outcome = "Denied" => n.pid = modal.pid]_vars

\* a kill that was denied, with rows on screen and the cursor off the top
C6_Witness ==
    /\ last.op = "kill"
    /\ last.outcome = "Denied"
    /\ cursor > 0
    /\ Len(rows) >= 2

\* the sentinel name of the specification's data model
Unknown == <<"u", "n", "k", "n", "o", "w", "n">>

\* the processes whose name cannot be looked up when a listing returns: those
\* that exited while it ran, and those of another user
Unresolvable == (seen \ alive) \cup (seen \cap Protected)

C8_GoneStatusShown ==
    (last.op = "kill" /\ last.outcome = "AlreadyGone") =>
        status_message.msg = GoneStatus(0).msg

====
